---- MODULE Spec2Model ----
(***************************************************************************)
(* Model of github.com/aspenmesh/tracing-go (options.go): Options,         *)
(* configure and holder.Close acting on the opentracing global tracer.     *)
(*                                                                         *)
(* Goroutines call Configure and Close.  The only shared memory is the     *)
(* global tracer slot (read by ot.GlobalTracer, written by                 *)
(* ot.SetGlobalTracer, neither holding a lock) and the closers.  The read  *)
(* of the slot in Close, its write in Close and its write in configure are *)
(* three separate steps, so every order in which the unsynchronised        *)
(* accesses of concurrent calls can take effect is a behaviour of Spec.    *)
(* A read that races with a write returns the value before or after it; a  *)
(* torn two-word read of the interface value differs from every handle's   *)
(* tracer, as one of the two racing values does, so Close takes one of the *)
(* same two branches.  The steps of configure before jaeger.NewTracer      *)
(* touch only its own variables and are taken as one step.                 *)
(***************************************************************************)
EXTENDS Integers, Sequences, FiniteSets, TLC

\* ---- bounds -------------------------------------------------------------
NProcs == 2        \* goroutines of the concurrent specification
MaxCalls == 5      \* calls made in a behaviour of the sequential specification
MaxConcCalls == 4  \* calls made in a behaviour of the concurrent specification
MaxReportCalls == 3  \* calls made in a behaviour of the reporting specification
MaxSetupCalls == 3   \* calls made in a behaviour of the sample's specification
MaxSpans == 2      \* spans finished in a behaviour of the reporting specification

Procs == 1..NProcs
SeqProcs == {1}  \* the single goroutine of the sequential specification

\* ---- values -------------------------------------------------------------
Nil == -1          \* the nil interface value (zero value of holder's fields)
NoopTracer == 0    \* ot.NoopTracer{}; tracers built by jaeger.NewTracer are 1, 2, ...

NoError == "nil"
ErrConflict == "can't have Jaeger and Zipkin outputs active simultaneously"
ErrZipkin == "could not build zipkin reporter"

Options == [ZipkinURL : {"", "http://zipkin:9411/api/v1/spans"},
            JaegerURL : {"", "http://jaeger:14268/api/traces"},
            LogTraceSpans : BOOLEAN]

ZeroOptions == [ZipkinURL |-> "", JaegerURL |-> "", LogTraceSpans |-> FALSE]

\* The options the goroutines of the concurrent specification draw from: no
\* reporter, the conflict, and Zipkin with the log reporter (nz is called and
\* may fail, and the reporters are composed).  Every tracer of a concurrent
\* behaviour then has the same kind of reporter.
ConcOptions ==
    {o \in Options : /\ o.LogTraceSpans = (o.ZipkinURL # "" /\ o.JaegerURL = "")
                     /\ (o.JaegerURL # "" => o.ZipkinURL # "")}

\* A Validate that rejects any URL.
ValidateEitherURL(o) ==
    IF o.JaegerURL # "" \/ o.ZipkinURL # "" THEN ErrConflict ELSE NoError

\* Options.Validate
Validate(o) ==
    IF o.JaegerURL # "" /\ o.ZipkinURL # "" THEN ErrConflict ELSE NoError

\* A TracingEnabled that looks at the URLs only.
TracingEnabledByURL(o) == o.JaegerURL # "" \/ o.ZipkinURL # ""

\* Options.TracingEnabled
TracingEnabled(o) ==
    o.JaegerURL # "" \/ o.ZipkinURL # "" \/ o.LogTraceSpans

\* A handle that records no tracer.
holderNoTracer(c, t) == [closer |-> c, tracer |-> Nil]

\* type holder struct { closer io.Closer; tracer ot.Tracer }
holder(c, t) == [closer |-> c, tracer |-> t]

\* holder{}
EmptyHolder == holder(Nil, Nil)

\* An io.Closer variable of a caller: <<>> is the nil interface, <<h>> holds h.
NilCloser == <<>>

\* What a caller's `tracer, err` pair holds before any call.
NoResult == [closer |-> NilCloser, err |-> NoError]

\* The reporter handed to jaeger.NewTracer: reporters[0] itself when there is
\* one, jaeger.NewCompositeReporter(reporters...) when there are more.
NoReporter == [composite |-> FALSE, members |-> <<>>]

\* A choice of rep that takes reporters[0] however many there are.
ChooseFirstReporter(reporters) ==
    [composite |-> FALSE, members |-> <<reporters[1]>>]

ChooseReporter(reporters) ==
    IF Len(reporters) = 1
    THEN [composite |-> FALSE, members |-> reporters]
    ELSE [composite |-> TRUE, members |-> reporters]

\* The composite reporter: Report and Close go to every member once, in the
\* order the members were given in.
CompositeReport(members, span) ==
    [k \in 1..Len(members) |-> [reporter |-> members[k], span |-> span]]

CompositeClose(members) == members

\* The Report calls a tracer makes on the members of its reporter r for one
\* span, and the members its closer closes.
ReporterReport(r, span) ==
    IF r.composite THEN CompositeReport(r.members, span)
                   ELSE <<[reporter |-> r.members[1], span |-> span]>>

ReporterClose(r) ==
    IF r.composite THEN CompositeClose(r.members) ELSE r.members

VARIABLES
    globalTracer,   \* opentracing's global tracer slot
    tracersBuilt,   \* number of tracers jaeger.NewTracer has built
    closed,         \* closers whose Close has been called
    pc,             \* pc[p]: where goroutine p is
    opts,           \* configure: options
    nzCalled,       \* configure: whether nz has been called in this call
    nzFailed,       \* configure: whether that call of nz returned an error
    nzCalls,        \* configure: the arguments of the calls of nz in this call
    reporters,      \* configure: reporters
    rep,            \* configure: rep
    tracer,         \* configure: tracer (closer is the same object)
    cur,            \* Close: the receiver h
    ret,            \* what configure returns: the caller's `tracer, err`
    handles,        \* handles[p]: the handles goroutine p holds
    calls,          \* calls made so far
    slotAtCall,     \* history: the slot when p's running call began
    wasClosed,      \* history: p's running Close is on a closer already closed
    lastInstall,    \* history: the tracer of the last executed install step
    closeRan,       \* history: some Close has been called
    tracerRep,      \* tracerRep[t]: the reporter NewTracer gave tracer t
    repClosed,      \* <<t, r>>: tracer t's closer has closed its reporter r
    tOpts,          \* setupTracing: tOpts
    validated,      \* setupTracing: <<tOpts.Validate()>> once called
    enabled,        \* setupTracing: <<tOpts.TracingEnabled()>> once called
    spans,          \* the spans finished so far, with the tracer of each
    reportCalls,    \* reportCalls[i]: the Report calls span i led to, in order
    glog            \* the lines written with glog.Infof

vars == <<globalTracer, tracersBuilt, closed, pc, opts, nzCalled, nzFailed,
          reporters, rep, tracer, cur, ret, handles, calls, slotAtCall,
          wasClosed, lastInstall, closeRan, nzCalls, tracerRep, repClosed,
          tOpts, validated, enabled, spans, reportCalls, glog>>

confLocals == <<opts, nzCalled, nzFailed, nzCalls, reporters, rep, tracer>>
history == <<lastInstall, closeRan>>

\* What Configure and Close never touch: the variables of the sample caller
\* and of the spans reported through a tracer.
outside == <<tOpts, validated, enabled, spans, reportCalls, glog>>

Init ==
    /\ globalTracer = NoopTracer
    /\ tracersBuilt = 0
    /\ closed = {}
    /\ pc = [p \in Procs |-> "idle"]
    /\ opts = [p \in Procs |-> ZeroOptions]
    /\ nzCalled = [p \in Procs |-> FALSE]
    /\ nzFailed = [p \in Procs |-> FALSE]
    /\ reporters = [p \in Procs |-> <<>>]
    /\ rep = [p \in Procs |-> NoReporter]
    /\ tracer = [p \in Procs |-> Nil]
    /\ cur = [p \in Procs |-> EmptyHolder]
    /\ ret = [p \in Procs |-> NoResult]
    /\ handles = [p \in Procs |-> {}]
    /\ calls = 0
    /\ slotAtCall = [p \in Procs |-> NoopTracer]
    /\ wasClosed = [p \in Procs |-> FALSE]
    /\ lastInstall = Nil
    /\ closeRan = FALSE
    /\ nzCalls = [p \in Procs |-> <<>>]
    /\ tracerRep = <<>>
    /\ repClosed = {}
    /\ tOpts = [p \in Procs |-> ZeroOptions]
    /\ validated = [p \in Procs |-> <<>>]
    /\ enabled = [p \in Procs |-> <<>>]
    /\ spans = <<>>
    /\ reportCalls = <<>>
    /\ glog = <<>>

\* An unrecovered panic ends the process: no goroutine takes another step.
NoPanic == \A q \in Procs : pc[q] # "panicked"

At(p, label) == pc[p] = label /\ NoPanic

\* A slot that only its first writer sets.
SetGlobalTracerIfUnset(t) ==
    globalTracer' = IF globalTracer = NoopTracer THEN t ELSE globalTracer

\* ot.SetGlobalTracer
SetGlobalTracer(t) == globalTracer' = t

\* A Close that never finds its tracer in the slot.
GlobalTracerIsNever(t) == FALSE

\* A Close that clears the slot whatever it holds.
GlobalTracerIsAnything(t) == TRUE

\* A Close that clears the slot whenever its handle has a tracer.
HandleHasTracer(t) == t # Nil

\* ot.GlobalTracer() == t
GlobalTracerIs(t) == globalTracer = t

\* ---- Configure ----------------------------------------------------------

\* The local variables of configure while the reporters are built.
NoReporters ==
    [err |-> NoError, nzCalled |-> FALSE, nzFailed |-> FALSE, nzCalls |-> <<>>,
     reporters |-> <<>>]

\* httpTimeout = 5 * time.Second, in seconds
httpTimeout == 5

\* A call of nz without the timeout option.
NzCallNoTimeout(o) == [url |-> o.ZipkinURL, timeout |-> 0]

\* nz(options.ZipkinURL, zipkin.HTTPLogger(logger),
\*    zipkin.HTTPTimeout(httpTimeout))
NzCall(o) == [url |-> o.ZipkinURL, timeout |-> httpTimeout]

\* A Zipkin block that goes on without the reporter when nz fails.
ZipkinBlockIgnoringError(o, ok, s) ==
    IF o.ZipkinURL # ""
    THEN IF ok
         THEN [s EXCEPT !.nzCalled = TRUE, !.nzCalls = Append(@, NzCall(o)),
                        !.reporters = Append(@, "zipkin")]
         ELSE [s EXCEPT !.nzCalled = TRUE, !.nzCalls = Append(@, NzCall(o)),
                        !.nzFailed = TRUE]
    ELSE s

\* if options.ZipkinURL != "" { trans, err := nz(...); if err != nil { return }
\*                              reporters = append(reporters, ...) }
ZipkinBlock(o, ok, s) ==
    IF o.ZipkinURL # ""
    THEN IF ok
         THEN [s EXCEPT !.nzCalled = TRUE, !.nzCalls = Append(@, NzCall(o)),
                        !.reporters = Append(@, "zipkin")]
         ELSE [s EXCEPT !.nzCalled = TRUE, !.nzCalls = Append(@, NzCall(o)),
                        !.nzFailed = TRUE, !.err = ErrZipkin]
    ELSE s

\* A Jaeger block that builds nothing.
JaegerBlockSkipped(o, s) == s

\* if options.JaegerURL != "" { reporters = append(reporters, ...) }
JaegerBlock(o, s) ==
    IF o.JaegerURL # "" THEN [s EXCEPT !.reporters = Append(@, "jaeger")] ELSE s

\* A log block that adds the logger whatever the options say.
LogBlockAlways(o, s) == [s EXCEPT !.reporters = Append(@, "log")]

\* if options.LogTraceSpans { reporters = append(reporters, logger) }
LogBlock(o, s) ==
    IF o.LogTraceSpans THEN [s EXCEPT !.reporters = Append(@, "log")] ELSE s

\* A configure that validates the options only after the reporters are built.
BuildReportersThenValidate(o, ok) ==
    LET z == ZipkinBlock(o, ok, NoReporters)
    IN  IF z.err # NoError THEN z
        ELSE IF Validate(o) # NoError
        THEN [z EXCEPT !.err = Validate(o), !.reporters = <<>>]
        ELSE LogBlock(o, JaegerBlock(o, z))

\* A configure that does not validate the options.
BuildReportersUnvalidated(o, ok) ==
    LET z == ZipkinBlock(o, ok, NoReporters)
    IN  IF z.err # NoError THEN z ELSE LogBlock(o, JaegerBlock(o, z))

\* configure up to the choice of rep: Validate, then the three blocks in the
\* order of the code, each return ending it.
BuildReporters(o, ok) ==
    IF Validate(o) # NoError
    THEN [NoReporters EXCEPT !.err = Validate(o)]
    ELSE LET z == ZipkinBlock(o, ok, NoReporters)
         IN  IF z.err # NoError THEN z ELSE LogBlock(o, JaegerBlock(o, z))

\* Configure / configure up to jaeger.NewTracer.  Nothing here touches shared
\* memory, so it is one step: the reporters are built, and either configure
\* returns (an error, or holder{} when there is no reporter) or NewTracer
\* builds a tracer never seen before, which is its own closer.
Configure(p, o, ok) ==
    LET b == BuildReporters(o, ok) IN
    /\ At(p, "idle")
    /\ calls' = calls + 1
    /\ opts' = [opts EXCEPT ![p] = o]
    /\ nzCalled' = [nzCalled EXCEPT ![p] = b.nzCalled]
    /\ nzFailed' = [nzFailed EXCEPT ![p] = b.nzFailed]
    /\ nzCalls' = [nzCalls EXCEPT ![p] = b.nzCalls]
    /\ reporters' = [reporters EXCEPT ![p] = b.reporters]
    /\ slotAtCall' = [slotAtCall EXCEPT ![p] = globalTracer]
    /\ IF b.err # NoError
       THEN /\ ret' = [ret EXCEPT ![p] = [closer |-> NilCloser, err |-> b.err]]
            /\ pc' = [pc EXCEPT ![p] = "return"]
            /\ UNCHANGED <<rep, tracer, tracersBuilt, tracerRep>>
       ELSE IF Len(b.reporters) = 0
       THEN /\ ret' = [ret EXCEPT ![p] = [closer |-> <<EmptyHolder>>, err |-> NoError]]
            /\ pc' = [pc EXCEPT ![p] = "return"]
            /\ UNCHANGED <<rep, tracer, tracersBuilt, tracerRep>>
       ELSE /\ ret' = [ret EXCEPT ![p] = NoResult]
            /\ rep' = [rep EXCEPT ![p] = ChooseReporter(b.reporters)]
            /\ tracersBuilt' = tracersBuilt + 1
            /\ tracerRep' = Append(tracerRep, ChooseReporter(b.reporters))
            /\ tracer' = [tracer EXCEPT ![p] = tracersBuilt + 1]
            /\ pc' = [pc EXCEPT ![p] = "install"]
    /\ UNCHANGED <<outside, globalTracer, closed, repClosed, cur, handles,
                   wasClosed, history>>

\* ot.SetGlobalTracer(tracer); return holder{closer: closer, tracer: tracer}, nil
ConfigureInstall(p) ==
    /\ At(p, "install")
    /\ SetGlobalTracer(tracer[p])
    /\ lastInstall' = tracer[p]
    /\ ret' = [ret EXCEPT ![p] = [closer |-> <<holder(tracer[p], tracer[p])>>,
                                  err |-> NoError]]
    /\ pc' = [pc EXCEPT ![p] = "return"]
    /\ UNCHANGED <<outside, tracersBuilt, tracerRep, closed, repClosed,
                   confLocals, cur, handles, calls, slotAtCall, wasClosed,
                   closeRan>>

\* Configure has returned and the caller goes on: it keeps a handle that was
\* returned without error (`defer tracer.Close()`), and configure's frame and
\* the caller's `tracer, err` are gone.
ConfigureReturn(p) ==
    /\ At(p, "return")
    /\ handles' = [handles EXCEPT ![p] =
                      IF ret[p].err = NoError THEN @ \cup {ret[p].closer[1]} ELSE @]
    /\ ret' = [ret EXCEPT ![p] = NoResult]
    /\ opts' = [opts EXCEPT ![p] = ZeroOptions]
    /\ nzCalled' = [nzCalled EXCEPT ![p] = FALSE]
    /\ nzFailed' = [nzFailed EXCEPT ![p] = FALSE]
    /\ nzCalls' = [nzCalls EXCEPT ![p] = <<>>]
    /\ reporters' = [reporters EXCEPT ![p] = <<>>]
    /\ rep' = [rep EXCEPT ![p] = NoReporter]
    /\ tracer' = [tracer EXCEPT ![p] = Nil]
    /\ slotAtCall' = [slotAtCall EXCEPT ![p] = NoopTracer]
    /\ pc' = [pc EXCEPT ![p] = "idle"]
    /\ UNCHANGED <<outside, globalTracer, tracersBuilt, tracerRep, closed,
                   repClosed, cur, calls, wasClosed, history>>

\* The sample's failure path: `if err != nil { tracer.Close(); log.Fatal(...) }`.
\* tracer holds what Configure returned beside the error; a method call on a
\* nil interface value is a nil dereference, a run-time panic.
CloseOnError(p) ==
    /\ At(p, "return")
    /\ ret[p].err # NoError
    /\ ret[p].closer = NilCloser
    /\ pc' = [pc EXCEPT ![p] = "panicked"]
    /\ UNCHANGED <<outside, globalTracer, tracersBuilt, tracerRep, closed,
                   repClosed, confLocals, cur, ret, handles, calls,
                   slotAtCall, wasClosed, history>>

\* ---- Close --------------------------------------------------------------

\* A Close that returns at once when the slot holds another tracer.
CloseOwnedOnly(p, h) ==
    /\ At(p, "idle")
    /\ h \in handles[p]
    /\ calls' = calls + 1
    /\ closeRan' = TRUE
    /\ cur' = [cur EXCEPT ![p] = h]
    /\ pc' = [pc EXCEPT ![p] =
                 IF globalTracer = h.tracer THEN "close_clear" ELSE "close_return"]
    /\ slotAtCall' = [slotAtCall EXCEPT ![p] = globalTracer]
    /\ wasClosed' = [wasClosed EXCEPT ![p] = h.closer \in closed]
    /\ UNCHANGED <<outside, globalTracer, tracersBuilt, tracerRep, closed,
                   repClosed, confLocals, ret, handles, lastInstall>>

\* holder.Close with the receiver h, up to and including
\* `if ot.GlobalTracer() == h.tracer`: the read of the slot and the comparison.
Close(p, h) ==
    /\ At(p, "idle")
    /\ h \in handles[p]
    /\ calls' = calls + 1
    /\ closeRan' = TRUE
    /\ cur' = [cur EXCEPT ![p] = h]
    /\ pc' = [pc EXCEPT ![p] =
                 IF GlobalTracerIs(h.tracer) THEN "close_clear" ELSE "close_closer"]
    /\ slotAtCall' = [slotAtCall EXCEPT ![p] = globalTracer]
    /\ wasClosed' = [wasClosed EXCEPT ![p] = h.closer \in closed]
    /\ UNCHANGED <<outside, globalTracer, tracersBuilt, tracerRep, closed,
                   repClosed, confLocals, ret, handles, lastInstall>>

\* A Close whose clearing of the slot writes nothing.
CloseClearNoWrite(p) ==
    /\ At(p, "close_clear")
    /\ pc' = [pc EXCEPT ![p] = "close_closer"]
    /\ UNCHANGED <<outside, globalTracer, tracersBuilt, tracerRep, closed,
                   repClosed, confLocals, cur, ret, handles, calls, slotAtCall,
                   wasClosed, history>>

\* ot.SetGlobalTracer(ot.NoopTracer{})
CloseClear(p) ==
    /\ At(p, "close_clear")
    /\ SetGlobalTracer(NoopTracer)
    /\ pc' = [pc EXCEPT ![p] = "close_closer"]
    /\ UNCHANGED <<outside, tracersBuilt, tracerRep, closed, repClosed,
                   confLocals, cur, ret, handles, calls, slotAtCall,
                   wasClosed, history>>

\* if h.closer != nil { h.closer.Close() }; return nil
CloseCloser(p) ==
    /\ At(p, "close_closer")
    /\ IF cur[p].closer # Nil
       THEN /\ closed' = closed \cup {cur[p].closer}
            /\ repClosed' = repClosed \cup
                  {<<cur[p].closer, ReporterClose(tracerRep[cur[p].closer])[k]>> :
                      k \in 1..Len(ReporterClose(tracerRep[cur[p].closer]))}
       ELSE UNCHANGED <<closed, repClosed>>
    /\ pc' = [pc EXCEPT ![p] = "close_return"]
    /\ UNCHANGED <<outside, globalTracer, tracersBuilt, tracerRep, confLocals,
                   cur, ret, handles, calls, slotAtCall, wasClosed, history>>

\* Close has returned.
CloseReturn(p) ==
    /\ At(p, "close_return")
    /\ cur' = [cur EXCEPT ![p] = EmptyHolder]
    /\ slotAtCall' = [slotAtCall EXCEPT ![p] = NoopTracer]
    /\ wasClosed' = [wasClosed EXCEPT ![p] = FALSE]
    /\ pc' = [pc EXCEPT ![p] = "idle"]
    /\ UNCHANGED <<outside, globalTracer, tracersBuilt, tracerRep, closed,
                   repClosed, confLocals, ret, handles, calls, history>>

\* ---- the sample caller, setupTracing --------------------------------------

notSetup == <<globalTracer, tracersBuilt, tracerRep, closed, repClosed, pc,
              confLocals, cur, ret, handles, calls, slotAtCall, wasClosed,
              history, spans, reportCalls, glog>>

\* tOpts := &tracing.Options{...}
SetupOptions(p, o) ==
    /\ At(p, "idle")
    /\ tOpts' = [tOpts EXCEPT ![p] = o]
    /\ validated' = [validated EXCEPT ![p] = <<>>]
    /\ enabled' = [enabled EXCEPT ![p] = <<>>]
    /\ UNCHANGED notSetup

\* err := tOpts.Validate()
SetupValidate(p) ==
    /\ At(p, "idle")
    /\ validated[p] = <<>>
    /\ validated' = [validated EXCEPT ![p] = <<Validate(tOpts[p])>>]
    /\ UNCHANGED <<tOpts, enabled, notSetup>>

\* tOpts.TracingEnabled()
SetupTracingEnabled(p) ==
    /\ At(p, "idle")
    /\ enabled[p] = <<>>
    /\ enabled' = [enabled EXCEPT ![p] = <<TracingEnabled(tOpts[p])>>]
    /\ UNCHANGED <<tOpts, validated, notSetup>>

\* if tOpts.TracingEnabled() { tracer, err = tracing.Configure("myapp", tOpts) },
\* reached only when Validate returned no error (log.Fatal otherwise).
SetupConfigure(p, ok) ==
    /\ validated[p] = <<NoError>>
    /\ enabled[p] = <<TRUE>>
    /\ Configure(p, tOpts[p], ok)

\* ---- spans ---------------------------------------------------------------

\* The operation names of the spans an application finishes.
OpNames == {"GET /a", "GET /b"}

\* sampler = jaeger.NewConstSampler(true): the decision for every trace
sampler == TRUE

\* A span logger that leaves the operation name out.
SpanLoggerReportNoName(span) ==
    <<[level |-> "INFO", operation |-> "", span |-> span.id]>>

\* spanLogger.Report: glog.Infof("Reporting span operation: %s span: %s",
\* span.OperationName(), span.String()), one line
SpanLoggerReport(span) ==
    <<[level |-> "INFO", operation |-> span.operation, span |-> span.id]>>

\* The glog lines a sequence of Report calls writes: those of the calls on
\* the span logger.
RECURSIVE LogLines(_)
LogLines(cs) ==
    IF cs = <<>> THEN <<>>
    ELSE (IF Head(cs).reporter = "log" THEN SpanLoggerReport(Head(cs).span)
                                       ELSE <<>>) \o LogLines(Tail(cs))

\* The application finishes a span named name that it started on the global
\* tracer: a tracer built by configure reports every sampled span to its
\* reporter.
ReportSpan(p, name) ==
    /\ At(p, "idle")
    /\ Len(spans) < MaxSpans
    /\ globalTracer \in 1..tracersBuilt
    /\ LET span == [operation |-> name, id |-> Len(spans) + 1]
           cs == IF sampler THEN ReporterReport(tracerRep[globalTracer], span)
                            ELSE <<>>
       IN  /\ spans' = Append(spans, [tracer |-> globalTracer, span |-> span])
           /\ reportCalls' = Append(reportCalls, cs)
           /\ glog' = glog \o LogLines(cs)
    /\ UNCHANGED <<globalTracer, tracersBuilt, tracerRep, closed, repClosed, pc,
                   confLocals, cur, ret, handles, calls, slotAtCall, wasClosed,
                   history, tOpts, validated, enabled>>

\* ---- specifications -----------------------------------------------------

\* A step of goroutine p: it starts a call, on options of O, while fewer than
\* n calls have been made, or takes the next step of its running call.
Step(p, O, n) ==
    \/ \E o \in O, ok \in BOOLEAN : calls < n /\ Configure(p, o, ok)
    \/ ConfigureInstall(p)
    \/ ConfigureReturn(p)
    \/ CloseOnError(p)
    \/ \E h \in handles[p] : calls < n /\ Close(p, h)
    \/ CloseClear(p)
    \/ CloseCloser(p)
    \/ CloseReturn(p)

\* Goroutines calling Configure and Close concurrently.
Next == \E p \in Procs : Step(p, ConcOptions, MaxConcCalls)

Spec == Init /\ [][Next]_vars

\* One goroutine: every history is sequential.
SeqNext == \E p \in SeqProcs : Step(p, Options, MaxCalls)

SeqSpec == Init /\ [][SeqNext]_vars

\* One goroutine that configures, closes, and finishes spans on the global
\* tracer.
ReportNext ==
    \E p \in SeqProcs :
        \/ Step(p, Options, MaxReportCalls)
        \/ \E name \in OpNames : ReportSpan(p, name)

ReportSpec == Init /\ [][ReportNext]_vars

\* One goroutine running the sample: it sets the options up, validates them,
\* asks whether tracing is enabled, configures if it is, closes what Configure
\* returned with an error, and otherwise closes the handle later.
SampleNext ==
    \E p \in SeqProcs :
        \/ \E o \in Options : SetupOptions(p, o)
        \/ SetupValidate(p)
        \/ SetupTracingEnabled(p)
        \/ \E ok \in BOOLEAN : calls < MaxSetupCalls /\ SetupConfigure(p, ok)
        \/ ConfigureInstall(p)
        \/ ret[p].err = NoError /\ ConfigureReturn(p)
        \/ CloseOnError(p)
        \/ \E h \in handles[p] : calls < MaxSetupCalls /\ Close(p, h)
        \/ CloseClear(p)
        \/ CloseCloser(p)
        \/ CloseReturn(p)

SampleSpec == Init /\ [][SampleNext]_vars

\* ---- claims --------------------------------------------------------------

InClose(p) == pc[p] \in {"close_clear", "close_closer", "close_return"}

BothURLs(o) == o.ZipkinURL # "" /\ o.JaegerURL # ""

\* A tracer built by jaeger.NewTracer.
IsBuilt(t) == t \in 1..tracersBuilt

\* C1: in a sequential history, Close on h writes the slot only when the slot
\* holds h's tracer, and then leaves the no-op tracer in it; otherwise the slot
\* is after Close what it was before (A.Close leaves B's tracer, B.Close
\* resets the slot).
C1_CloseClearsOnlyOwnTracer ==
    \A p \in Procs :
        /\ pc[p] = "close_clear" => globalTracer = cur[p].tracer
        /\ pc[p] \in {"close_closer", "close_return"} =>
              globalTracer = IF slotAtCall[p] = cur[p].tracer
                             THEN NoopTracer ELSE slotAtCall[p]

\* A's Close has returned and left the tracer of a later Configure in the slot.
C1_Witness ==
    \E p \in Procs :
        /\ pc[p] = "close_return"
        /\ IsBuilt(cur[p].tracer)
        /\ IsBuilt(globalTracer)
        /\ globalTracer > cur[p].tracer

\* C2: under every interleaving, the write of the no-op tracer by Close on h
\* happens only while the slot holds h's tracer: Close never overwrites a
\* tracer installed by another Configure.
C2_CompareAndClearIsAtomic ==
    [][\A p \in Procs :
          (pc[p] = "close_clear" /\ pc'[p] = "close_closer")
              => globalTracer = cur[p].tracer]_vars

\* C3: with both URLs set, Configure returns the error Validate returns, nz
\* is never called, no reporter and no tracer is built, and the slot is what
\* it was before the call.
C3_ConflictFailsBeforeAnyEffect ==
    \A p \in Procs :
        (pc[p] \in {"install", "return"} /\ BothURLs(opts[p])) =>
            /\ pc[p] = "return"
            /\ Validate(opts[p]) = ErrConflict
            /\ ret[p] = [closer |-> NilCloser, err |-> Validate(opts[p])]
            /\ ~nzCalled[p]
            /\ reporters[p] = <<>>
            /\ rep[p] = NoReporter
            /\ tracer[p] = Nil
            /\ globalTracer = slotAtCall[p]

\* Configure has failed on conflicting URLs while the slot held a tracer.
C3_Witness ==
    \E p \in Procs :
        /\ pc[p] = "return"
        /\ BothURLs(opts[p])
        /\ ret[p].err = ErrConflict
        /\ IsBuilt(slotAtCall[p])

\* C4: when ZipkinURL is set, JaegerURL is not, and nz returns an error,
\* Configure returns an error, builds no reporter and no tracer, and the slot
\* is what it was before the call.
C4_ZipkinFailureInstallsNothing ==
    \A p \in Procs :
        (opts[p].ZipkinURL # "" /\ opts[p].JaegerURL = "" /\ nzFailed[p]) =>
            /\ pc[p] \in {"return", "panicked"}
            /\ ret[p].err # NoError
            /\ ret[p].closer = NilCloser
            /\ reporters[p] = <<>>
            /\ rep[p] = NoReporter
            /\ tracer[p] = Nil
            /\ globalTracer = slotAtCall[p]

\* nz has failed in a Configure that also asked for the log reporter, while
\* the slot held a tracer of an earlier Configure.
C4_Witness ==
    \E p \in Procs :
        /\ pc[p] = "return"
        /\ nzFailed[p]
        /\ opts[p].LogTraceSpans
        /\ ret[p].err = ErrZipkin
        /\ IsBuilt(slotAtCall[p])

\* C5: a handle of a Configure that built a reporter has a closer, and when
\* Close on it returns that closer has been closed, whatever the slot held
\* when Close was called.
C5_CloseReleasesCloser ==
    \A p \in Procs :
        /\ (pc[p] = "return" /\ ret[p].err = NoError /\ Len(reporters[p]) >= 1)
              => IsBuilt(ret[p].closer[1].closer)
        /\ (pc[p] = "close_return" /\ cur[p].closer # Nil)
              => cur[p].closer \in closed

\* Close has returned on a handle whose tracer a later Configure had replaced.
C5_Witness ==
    \E p \in Procs :
        /\ pc[p] = "close_return"
        /\ IsBuilt(cur[p].closer)
        /\ IsBuilt(slotAtCall[p])
        /\ slotAtCall[p] # cur[p].tracer
        /\ cur[p].closer \in closed

\* C6: in a sequential history, when a Configure that built a reporter
\* returns, the slot holds the tracer it built, which is the tracer of the
\* returned handle, whatever the slot held before.
C6_ConfigureInstallsItsTracer ==
    \A p \in Procs :
        (pc[p] = "return" /\ ret[p].err = NoError /\ Len(reporters[p]) >= 1) =>
            /\ IsBuilt(tracer[p])
            /\ ret[p].closer = <<holder(tracer[p], tracer[p])>>
            /\ globalTracer = ret[p].closer[1].tracer

\* Configure has returned after replacing the tracer of an earlier Configure.
C6_Witness ==
    \E p \in Procs :
        /\ pc[p] = "return"
        /\ ret[p].err = NoError
        /\ Len(reporters[p]) >= 1
        /\ IsBuilt(slotAtCall[p])
        /\ globalTracer = tracer[p]

\* C7 as stated: with no URL and no log reporter, TracingEnabled is false and
\* the slot holds the no-op tracer when Configure returns.
C7_EmptyOptionsInstallNoop ==
    \A p \in Procs :
        (pc[p] = "return" /\ opts[p] = ZeroOptions) =>
            /\ ~TracingEnabled(opts[p])
            /\ ret[p].err = NoError
            /\ globalTracer = NoopTracer

\* C7 amended: with no URL and no log reporter, TracingEnabled is false,
\* Configure returns holder{} without error, builds no tracer and leaves the
\* slot as it was before the call; Close on holder{} changes neither the slot
\* nor any closer.
C7_EmptyOptionsLeaveSlot ==
    /\ [](\A p \in Procs :
            (pc[p] \in {"install", "return"} /\ ~TracingEnabled(opts[p])) =>
                /\ pc[p] = "return"
                /\ opts[p] = ZeroOptions
                /\ ret[p] = [closer |-> <<EmptyHolder>>, err |-> NoError]
                /\ tracer[p] = Nil
                /\ globalTracer = slotAtCall[p])
    /\ [][\A p \in Procs :
            (InClose(p) /\ cur[p] = EmptyHolder) =>
                /\ globalTracer' = globalTracer
                /\ closed' = closed]_vars

\* Close on holder{} has returned while the slot holds a tracer.
C7_Witness ==
    \E p \in Procs :
        /\ pc[p] = "close_return"
        /\ cur[p] = EmptyHolder
        /\ IsBuilt(globalTracer)
        /\ globalTracer \notin closed

\* C8: the value Configure returns beside an error can be closed, as the
\* sample does, without a fault.
C8_CloseOnErrorIsSafe == \A p \in Procs : pc[p] # "panicked"

\* C9: with no Close, concurrent Configure calls each return a handle of their
\* own tracer, and once all have returned the slot holds the tracer of the
\* install step executed last.
C9_LastWriterWins ==
    /\ (~closeRan /\ lastInstall # Nil /\ \A p \in Procs : pc[p] \in {"idle", "return"})
          => globalTracer = lastInstall
    /\ \A p \in Procs :
          (pc[p] = "return" /\ ret[p].err = NoError /\ Len(reporters[p]) >= 1) =>
              /\ ret[p].closer = <<holder(tracer[p], tracer[p])>>
              /\ IsBuilt(tracer[p])
              /\ \A q \in Procs \ {p} :
                    /\ ret[p].closer[1] \notin handles[q]
                    /\ ret[q].closer # ret[p].closer

\* Two goroutines have configured concurrently: the tracer built first was
\* installed last, and it is the one in the slot.
C9_Witness ==
    /\ ~closeRan
    /\ \A p \in Procs : pc[p] = "idle"
    /\ \E p, q \in Procs :
          /\ p # q
          /\ holder(1, 1) \in handles[p]
          /\ holder(2, 2) \in handles[q]
    /\ globalTracer = 1

\* C10: in a sequential history, a Close on a handle whose closer an earlier
\* Close has closed never writes the slot, so it clears no tracer of another
\* Configure and two Close calls in a row leave the slot as one does.
C10_RepeatedCloseLeavesSlot ==
    \A p \in Procs :
        (InClose(p) /\ wasClosed[p]) =>
            /\ pc[p] # "close_clear"
            /\ globalTracer = slotAtCall[p]

\* A second Close on a handle has returned, with the tracer that a Configure
\* installed between the two still in the slot.
C10_Witness ==
    \E p \in Procs :
        /\ pc[p] = "close_return"
        /\ wasClosed[p]
        /\ IsBuilt(globalTracer)
        /\ globalTracer \notin closed

\* The reporters configure is to build for options o, in the order Zipkin,
\* Jaeger, log.
IsOn(o, r) ==
    \/ r = "zipkin" /\ o.ZipkinURL # ""
    \/ r = "jaeger" /\ o.JaegerURL # ""
    \/ r = "log" /\ o.LogTraceSpans

EnabledReporters(o) ==
    LET On(r) == IsOn(o, r) IN SelectSeq(<<"zipkin", "jaeger", "log">>, On)

\* C11: a successful configure has built exactly the enabled reporters, in the
\* order Zipkin, Jaeger, log; with none it builds no tracer, with one the
\* tracer has that reporter itself, with more a composite of them; every
\* reported span reaches each member of its tracer's reporter once, in that
\* order, and a closed closer has closed every member.
C11_ReportersInOrderAndComposed ==
    /\ \A p \in Procs :
          (pc[p] \in {"install", "return"} /\ ret[p].err = NoError) =>
              /\ reporters[p] = EnabledReporters(opts[p])
              /\ Len(reporters[p]) = 0 => (tracer[p] = Nil /\ rep[p] = NoReporter)
              /\ Len(reporters[p]) >= 1 =>
                    /\ IsBuilt(tracer[p])
                    /\ tracerRep[tracer[p]] = rep[p]
                    /\ rep[p].members = reporters[p]
                    /\ rep[p].composite = (Len(reporters[p]) >= 2)
    /\ \A i \in 1..Len(spans) :
          LET m == tracerRep[spans[i].tracer].members IN
          /\ Len(reportCalls[i]) = Len(m)
          /\ \A k \in 1..Len(m) :
                reportCalls[i][k] = [reporter |-> m[k], span |-> spans[i].span]
    /\ \A t \in closed :
          {pr[2] : pr \in {x \in repClosed : x[1] = t}}
              = {tracerRep[t].members[k] : k \in 1..Len(tracerRep[t].members)}

\* A span has gone through a composite of the Zipkin and log reporters, and
\* the closer of that tracer has then closed both.
C11_Witness ==
    \E i \in 1..Len(spans) :
        /\ tracerRep[spans[i].tracer] =
              [composite |-> TRUE, members |-> <<"zipkin", "log">>]
        /\ Len(reportCalls[i]) = 2
        /\ reportCalls[i][1].reporter = "zipkin"
        /\ reportCalls[i][2].reporter = "log"
        /\ <<spans[i].tracer, "zipkin">> \in repClosed
        /\ <<spans[i].tracer, "log">> \in repClosed

C13_ValidateIffBothURLs ==
    /\ [](\A p \in Procs :
            validated[p] # <<>> =>
                /\ (validated[p][1] # NoError) <=> BothURLs(tOpts[p])
                /\ validated[p][1] \in {NoError, ErrConflict})
    /\ [][\A p \in Procs :
            (validated[p] = <<>> /\ validated'[p] # <<>>) =>
                /\ tOpts' = tOpts
                /\ globalTracer' = globalTracer]_vars

\* Validate has rejected options with both URLs while the slot held a tracer.
C13_Witness ==
    \E p \in Procs :
        /\ validated[p] = <<ErrConflict>>
        /\ BothURLs(tOpts[p])
        /\ IsBuilt(globalTracer)

\* C14: TracingEnabled returns true exactly when a URL or LogTraceSpans is
\* set, also for options Validate rejects, and calling it changes neither the
\* options nor the slot.
C14_TracingEnabledIffAnySet ==
    /\ [](\A p \in Procs :
            enabled[p] # <<>> =>
                enabled[p][1] = (\/ tOpts[p].ZipkinURL # ""
                                 \/ tOpts[p].JaegerURL # ""
                                 \/ tOpts[p].LogTraceSpans))
    /\ [][\A p \in Procs :
            (enabled[p] = <<>> /\ enabled'[p] # <<>>) =>
                /\ tOpts' = tOpts
                /\ globalTracer' = globalTracer]_vars

\* TracingEnabled has returned true for options that Validate has rejected.
C14_Witness ==
    \E p \in Procs :
        /\ enabled[p] = <<TRUE>>
        /\ validated[p] = <<ErrConflict>>

\* The reporter of a tracer configured with LogTraceSpans and no URL.
LogOnly(t) == tracerRep[t] = [composite |-> FALSE, members |-> <<"log">>]

\* The spans finished on such tracers, and the glog lines about them.
LogOnlySpans ==
    LET Mine(e) == LogOnly(e.tracer) IN SelectSeq(spans, Mine)

LogOnlyLines ==
    LET Mine(l) == LogOnly(spans[l.span].tracer) IN SelectSeq(glog, Mine)

\* C15: a Configure with LogTraceSpans and no URL installs a tracer whose
\* reporter is the span logger, and the spans finished on such a tracer have
\* one glog line each, with the operation name, in the order they finished.
C15_OneLogLinePerSpan ==
    /\ \A p \in Procs :
          (/\ pc[p] \in {"install", "return"}
           /\ opts[p].LogTraceSpans
           /\ opts[p].ZipkinURL = ""
           /\ opts[p].JaegerURL = "") =>
                 /\ ret[p].err = NoError
                 /\ IsBuilt(tracer[p])
                 /\ LogOnly(tracer[p])
    /\ Len(LogOnlyLines) = Len(LogOnlySpans)
    /\ \A i \in 1..Len(LogOnlySpans) :
          /\ i <= Len(LogOnlyLines)
          /\ LogOnlyLines[i].operation = LogOnlySpans[i].span.operation
          /\ LogOnlyLines[i].span = LogOnlySpans[i].span.id

\* Two spans with different names have been finished on a tracer of the span
\* logger alone, and glog holds their two lines.
C15_Witness ==
    /\ Len(LogOnlySpans) = 2
    /\ LogOnlySpans[1].span.operation # LogOnlySpans[2].span.operation
    /\ Len(glog) = 2
    /\ glog[1].operation = LogOnlySpans[1].span.operation
    /\ glog[2].operation = LogOnlySpans[2].span.operation

\* C16: Configure returns an error exactly when both URLs are set or nz has
\* been called and has failed; with no ZipkinURL it returns none.
C16_ErrorsOnlyFromConflictOrZipkin ==
    \A p \in Procs :
        pc[p] \in {"install", "return"} =>
            /\ (ret[p].err # NoError)
                  <=> (BothURLs(opts[p]) \/ (opts[p].ZipkinURL # "" /\ nzFailed[p]))
            /\ BothURLs(opts[p]) => ret[p].err = ErrConflict
            /\ opts[p].ZipkinURL = "" => (ret[p].err = NoError /\ ~nzCalled[p])

\* Configure has returned without error for a Jaeger URL and the log reporter.
C16_Witness ==
    \E p \in Procs :
        /\ pc[p] = "return"
        /\ opts[p].ZipkinURL = ""
        /\ opts[p].JaegerURL # ""
        /\ opts[p].LogTraceSpans
        /\ ret[p].err = NoError
        /\ IsBuilt(tracer[p])

\* C17: under every interleaving the slot never holds a tracer whose closer
\* has been closed; a Close that is about to clear the slot has not yet closed
\* its closer; and the only step that writes a built tracer into the slot is
\* the install step of the Configure that built it.
C17_SlotNeverHoldsClosedTracer ==
    /\ [](/\ globalTracer \notin closed
          /\ \A t \in 1..tracersBuilt :
                t = globalTracer =>
                    \A i \in 1..Len(tracerRep[t].members) :
                        <<t, tracerRep[t].members[i]>> \notin repClosed
          /\ \A p \in Procs : pc[p] = "close_clear" => cur[p].closer \notin closed)
    /\ [][(globalTracer' # globalTracer /\ IsBuilt(globalTracer')) =>
            \E p \in Procs :
                /\ pc[p] = "install"
                /\ pc'[p] = "return"
                /\ tracer[p] = globalTracer'
                /\ lastInstall # globalTracer']_vars

\* A closer has been closed while the slot holds the tracer of another
\* Configure and a further Close is running.
C17_Witness ==
    /\ closed # {}
    /\ IsBuilt(globalTracer)
    /\ \E p \in Procs : InClose(p) /\ IsBuilt(cur[p].tracer)

\* C18: once every call has returned and every handle with a closer that a
\* Configure returned has been closed, the slot holds the no-op tracer and
\* every reporter of every tracer built has been closed.
C18_AllClosedLeavesNoop ==
    (/\ \A p \in Procs : pc[p] = "idle"
     /\ \A p \in Procs : \A h \in handles[p] : h.closer # Nil => h.closer \in closed)
        => /\ globalTracer = NoopTracer
           /\ closed = 1..tracersBuilt
           /\ \A t \in 1..tracersBuilt :
                 \A i \in 1..Len(tracerRep[t].members) :
                     <<t, tracerRep[t].members[i]>> \in repClosed

\* Two goroutines have each configured a tracer and closed their handle.
C18_Witness ==
    /\ \A p \in Procs : pc[p] = "idle"
    /\ tracersBuilt = 2
    /\ closed = {1, 2}
    /\ \E p, q \in Procs :
          p # q /\ holder(1, 1) \in handles[p] /\ holder(2, 2) \in handles[q]
    /\ globalTracer = NoopTracer

\* What configure has tried to build: the reporters built, and the Zipkin
\* reporter when nz failed.
Attempted(p) == Len(reporters[p]) + (IF nzFailed[p] THEN 1 ELSE 0)

\* C19 as stated: for options that pass Validate, configure tries to build as
\* many reporters as fields are set.
C19_AttemptsEqualEnabled ==
    \A p \in Procs :
        (pc[p] \in {"install", "return"} /\ Validate(opts[p]) = NoError) =>
            Attempted(p) = Len(EnabledReporters(opts[p]))

\* C19 amended: for options that pass Validate, unless nz fails configure
\* builds as many reporters as fields are set (when nz fails it returns the
\* error with none built); it returns holder{} exactly when TracingEnabled is
\* false; and a Configure on options with TracingEnabled true that returns no
\* error has installed its tracer.
C19_BuiltEqualEnabledUnlessNzFails ==
    \A p \in Procs :
        (pc[p] \in {"install", "return"} /\ Validate(opts[p]) = NoError) =>
            /\ ~nzFailed[p] =>
                  /\ Len(reporters[p]) = Len(EnabledReporters(opts[p]))
                  /\ ret[p].err = NoError
            /\ nzFailed[p] => (reporters[p] = <<>> /\ ret[p].err = ErrZipkin)
            /\ (ret[p].closer = <<EmptyHolder>>) <=> ~TracingEnabled(opts[p])
            /\ (pc[p] = "return" /\ TracingEnabled(opts[p]) /\ ret[p].err = NoError)
                  => /\ IsBuilt(tracer[p])
                     /\ ret[p].closer = <<holder(tracer[p], tracer[p])>>
                     /\ globalTracer = tracer[p]

\* Configure has returned without error with two reporters built for two
\* fields set, its tracer in the slot.
C19_Witness ==
    \E p \in Procs :
        /\ pc[p] = "return"
        /\ TracingEnabled(opts[p])
        /\ ret[p].err = NoError
        /\ Len(reporters[p]) = 2
        /\ globalTracer = tracer[p]

TypeOK ==
    /\ globalTracer \in 0..tracersBuilt
    /\ closed \subseteq 1..tracersBuilt
    /\ calls \in 0..(MaxCalls + MaxConcCalls)
====
